---- MODULE Spec2Model ----
(***************************************************************************)
(* PyEmChargeOnSolar: the solar-surplus EV charging controller.            *)
(*                                                                         *)
(* Units.  Power samples are Python floats rounded to two decimals of a    *)
(* kW; the model keeps them as integers in hundredths of a kW ("ckw").     *)
(* Provider watts are integers.  Optional Python values: the on/off flags  *)
(* and icons are the strings "None", "True", "False", ...; an optional     *)
(* number or object is a sequence of length 0 (None) or 1.                 *)
(***************************************************************************)
EXTENDS Integers, Sequences, FiniteSets, TLC

VARIABLES
  SMOOTH,              \* pyemcos_shared.SMOOTH (int(...) of it)
  WAIT_START,          \* pyemcos_shared.WAIT_START
  WAIT_STOP,           \* pyemcos_shared.WAIT_STOP
  OFFSET_AMPS,         \* pyemcos_shared.OFFSET_AMPS
  DISABLE_DNS_TXT,     \* pyemcos_shared.DISABLE_DNS_TXT: "None" or "set"
  excess_kw,           \* PyEmChargeOnSolar.excess_kw: <<>> or <<watts>> (kW * 1000)
  charger_usage_kw,    \* PyEmChargeOnSolar.charger_usage_kw: <<>> or <<ckw>>
  available_kw,        \* PyEmChargeOnSolar.available_kw, the sample history (ckw)
  script_charger_on,   \* the controller's intent: "None", "True", "False"
  charger_on,          \* observed on/off flag: "None", "True", "False"
  charging_rate,       \* observed rate: <<>> or <<amps>>
  charger_icon,        \* observed icon: "None", "CarConnected", "CarNotConnected"
  charger_icon_label,  \* observed icon label: "None", "On", "Off"
  ev_charger,          \* PyEmCoS_Emporia.ev_charger: <<>> or <<record>>
  schedule_on,         \* main's schedule_on: "None", "True", "False"
  disabled_record,     \* main's disabled_record: Unbound or the TXT string
  signal,              \* the world: clock and disable signals of this iteration
  pc,                  \* position in main's loop body
  power_data,          \* update_generation's power_data: <<>> or <<PowerStats>>
  charger_draw,        \* the world: what get_device_list_usage() would yield now
  device,              \* the world: the charger as the service holds it
  last_set_charger_on, \* the value of the script's latest set_charger_on call
  drift_detected,      \* "True" while the engine's latest run reported drift
  cmds,                \* charger commands issued in the current loop iteration
  step,                \* the branch the decision engine took in this iteration
  pushed,              \* every sample appended so far (history specification)
  stat,                \* the last sliding statistic computed (history specification)
  bo                   \* the state of one backoff-wrapped call

vars == << SMOOTH, WAIT_START, WAIT_STOP, OFFSET_AMPS, DISABLE_DNS_TXT,
           excess_kw, charger_usage_kw, available_kw, script_charger_on,
           charger_on, charging_rate, charger_icon, charger_icon_label,
           ev_charger, schedule_on, disabled_record, signal, pc, power_data,
           charger_draw, device, last_set_charger_on, drift_detected, cmds,
           step, pushed, stat, bo >>

config == << SMOOTH, WAIT_START, WAIT_STOP, OFFSET_AMPS, DISABLE_DNS_TXT >>
observed == << charger_on, charging_rate, charger_icon, charger_icon_label >>
power == << excess_kw, charger_usage_kw, power_data, charger_draw >>
killswitch == << disabled_record, signal >>
world == << device, last_set_charger_on, drift_detected >>
aside == << pushed, stat, bo >>

----------------------------------------------------------------------------
(* Program constants *)

MIN_AMPS == 6
MAX_AMPS == 48
VOLTS == 240
DEFAULT_DELAY == 5
DEFAULT_RETRIES == 3

(* Bounds of the model *)

MaxWait == 2        \* WAIT_START, WAIT_STOP range over 1..MaxWait in Spec
MaxSmooth == 2      \* SMOOTH ranges over 0..MaxSmooth in Spec
MaxHist == 4        \* pushes explored by the history specification
MaxCount == 3       \* window sizes -1..MaxCount tried by the history specification
MaxRetries == 4     \* retries explored by the backoff specification
MaxDelay == 2       \* delays explored by the backoff specification

----------------------------------------------------------------------------
(* Python helpers *)

None == <<>>
Some(x) == << x >>

Min2(a, b) == IF a <= b THEN a ELSE b
Max2(a, b) == IF a >= b THEN a ELSE b

\* int(x / d) for d > 0: truncation toward zero
TruncDiv(a, d) == IF a >= 0 THEN a \div d ELSE -((-a) \div d)

\* round(a / d) for d > 0, ties to the even neighbour
RoundDiv(a, d) ==
  LET q == a \div d
      r == a - q * d
  IN  IF 2 * r < d THEN q
      ELSE IF 2 * r > d THEN q + 1
      ELSE IF q % 2 = 0 THEN q ELSE q + 1

\* s[start:] with Python's meaning of a negative or too large start
PySliceFrom(s, start) ==
  LET n == Len(s)
      from == IF start < 0 THEN Max2(n + start, 0) ELSE Min2(start, n)
  IN  SubSeq(s, from + 1, n)

RECURSIVE SumSeq(_)
SumSeq(s) == IF s = <<>> THEN 0 ELSE s[1] + SumSeq(Tail(s))

RECURSIVE MinSeq(_)
MinSeq(s) == IF Len(s) = 1 THEN s[1] ELSE Min2(s[1], MinSeq(Tail(s)))

RECURSIVE MaxSeq(_)
MaxSeq(s) == IF Len(s) = 1 THEN s[1] ELSE Max2(s[1], MaxSeq(Tail(s)))

----------------------------------------------------------------------------
(* pyemcos_shared *)

historical_count == Max2(WAIT_START, WAIT_STOP)

----------------------------------------------------------------------------
(* SampleHistory: prune and the sliding statistics *)

prune_available_kw(kw) ==
  IF Len(kw) > historical_count THEN PySliceFrom(kw, -historical_count) ELSE kw

\* the unrounded average, as the fraction num/den of ckw
available_kw_sliding_average(kw, count) ==
  IF count > 0 /\ Len(kw) >= count
  THEN [num |-> SumSeq(PySliceFrom(kw, -count)), den |-> Min2(count, Len(kw))]
  ELSE [num |-> 0, den |-> 1]

\* mutant: the minimum of the whole history
available_kw_sliding_minimum_unsliced(kw, count) ==
  IF count > 0 /\ Len(kw) >= count THEN MinSeq(kw) ELSE 0

available_kw_sliding_minimum(kw, count) ==
  IF count > 0 /\ Len(kw) >= count THEN MinSeq(PySliceFrom(kw, -count)) ELSE 0

available_kw_sliding_maximum(kw, count) ==
  IF count > 0 /\ Len(kw) >= count THEN MaxSeq(PySliceFrom(kw, -count)) ELSE 0

----------------------------------------------------------------------------
(* Provider readings: what one loop iteration can be handed *)

Flag(b) == IF b THEN "True" ELSE "False"
Truthy(x) == x = "True"

PowerStats(solar, load, battery) ==
  [solar_instant_watts |-> solar, load_instant_watts |-> load,
   battery_instant_watts |-> battery]

\* One moment of the site: power is what PowerData.get() returns (None once
\* its retries are exhausted), usage is what get_device_list_usage() would
\* return at that moment, reduced to round(usage * 60, 2) in ckw (None once
\* its retries are exhausted)
Readings ==
  { [power |-> None, usage |-> None],
    [power |-> Some(PowerStats(0, 300, 0)), usage |-> Some(0)],
    [power |-> Some(PowerStats(3004, 1500, 700)), usage |-> Some(0)],
    [power |-> Some(PowerStats(13000, 500, -500)), usage |-> Some(0)],
    [power |-> Some(PowerStats(3000, 3300, 0)), usage |-> Some(180)],
    [power |-> None, usage |-> Some(150)] }

\* the charger states the service can report
ReportedRates == { MIN_AMPS, MAX_AMPS }
ReportedIcons ==
  { << "CarConnected", "On" >>, << "CarConnected", "Off" >>,
    << "CarNotConnected", "Off" >> }
Reports ==
  { [charger_on |-> o, charging_rate |-> r, charger_icon |-> i[1],
     charger_icon_label |-> i[2]] :
      o \in { "True", "False" }, r \in ReportedRates, i \in ReportedIcons }

OffsetChoices == { -1, 0, MIN_AMPS }

----------------------------------------------------------------------------
(* PyEmChargeOnSolar: the pure parts of one poll *)

\* mutant: an absent reading taken as one kW of surplus
ExcessOf_absent_as_surplus(data) ==
  IF data = None THEN 1000
  ELSE LET d == data[1]
       IN  d.solar_instant_watts - d.load_instant_watts
             + Min2(d.battery_instant_watts, 0)

\* update_generation: excess_kw, in watts
ExcessOf(data) ==
  IF data = None THEN 0
  ELSE LET d == data[1]
       IN  d.solar_instant_watts - d.load_instant_watts
             + Min2(d.battery_instant_watts, 0)

\* update_emporia_usage: charger_usage_kw, in ckw
UsageOf(device_usage) == IF device_usage # None THEN device_usage[1] ELSE 0

\* round(excess_kw + charger_usage_kw, 2) in ckw; 0 when either is None
available_for_charger_kw(excess, usage) ==
  IF excess # None /\ usage # None
  THEN RoundDiv(excess[1] + 10 * usage[1], 10)
  ELSE 0

\* update_power_available on a history: append, then prune
PushSample(kw, sample) == prune_available_kw(Append(kw, sample))

----------------------------------------------------------------------------
(* PyEmChargeOnSolar.update_charge_amp_by_power_data: the signals *)

\* mutant: the quotient rounded down
AmpsFromKw_floored(ckw) == (ckw * 10) \div VOLTS
\* int(kw * 1000 / 240) for kw given in ckw
AmpsFromKw(ckw) == TruncDiv(ckw * 10, VOLTS)

average_kw ==
  LET a == available_kw_sliding_average(available_kw, SMOOTH)
  IN  RoundDiv(a.num, a.den)
amps_from_kw == AmpsFromKw(average_kw)
amps == amps_from_kw + OFFSET_AMPS
\* mutant: the enable decision floored like the commanded rate
true_final_amps_floored == Max2(Min2(amps, MAX_AMPS), MIN_AMPS)
true_final_amps == Max2(Min2(amps, MAX_AMPS), 0)
\* mutant: the commanded rate without the cap at MAX_AMPS
set_final_amps_uncapped == Max2(amps, MIN_AMPS)
set_final_amps == Max2(Min2(amps, MAX_AMPS), MIN_AMPS)

min_kw == available_kw_sliding_minimum(available_kw, WAIT_START)
max_kw == available_kw_sliding_maximum(available_kw, WAIT_STOP)
min_amps == AmpsFromKw(min_kw) + OFFSET_AMPS
max_amps == AmpsFromKw(max_kw) + OFFSET_AMPS
\* mutant: the minimum has to exceed MIN_AMPS
should_enable_strict == min_amps > MIN_AMPS
should_enable == min_amps >= MIN_AMPS
should_disable == max_amps < MIN_AMPS

----------------------------------------------------------------------------
(* Charger commands *)

SetOn(v) == [op |-> "set_charger_on", on |-> Flag(v), rate |-> None]
SetRate(n) == [op |-> "set_charging_rate", on |-> "None", rate |-> Some(n)]
Commit == [op |-> "update_charger", on |-> "None", rate |-> None]

\* PyEmCoS_Emporia.set_charger_on / set_charging_rate write the local object;
\* update_charger sends it and leaves it as it is
ApplyCmd(ev, c) ==
  IF ev = None THEN ev
  ELSE IF c.op = "set_charger_on"
       THEN Some([ev[1] EXCEPT !.charger_on = c.on])
       ELSE IF c.op = "set_charging_rate"
            THEN Some([ev[1] EXCEPT !.charging_rate = c.rate[1]])
            ELSE ev

RECURSIVE ApplyCmds(_, _)
ApplyCmds(ev, cs) ==
  IF cs = <<>> THEN ev ELSE ApplyCmds(ApplyCmd(ev, Head(cs)), Tail(cs))

----------------------------------------------------------------------------
(* PyEmChargeOnSolar.update_charge_amp_by_power_data: the decision *)

\* mutant: the drift check dropped
state_matches_unchecked == TRUE
\* mutant: once an intent is set the engine never takes control again
state_matches_only_unset == script_charger_on = "None"
\* line 189: continue only when the charger is as the script left it
state_matches == script_charger_on = "None" \/ script_charger_on = charger_on

\* lines 197-199
EnableCmds == << SetOn(TRUE), SetRate(set_final_amps), Commit >>
\* mutant: the pause sets the rate it prints
DisableCmds_at_final_amps == << SetOn(FALSE), SetRate(set_final_amps), Commit >>
\* lines 204-206
DisableCmds == << SetOn(FALSE), SetRate(MIN_AMPS), Commit >>
\* mutant: the re-rate switches the charger on again
RerateCmds_with_set_on == << SetOn(TRUE), SetRate(set_final_amps), Commit >>
\* lines 213-214
RerateCmds == << SetRate(set_final_amps), Commit >>

\* mutant: the enable branch asks for more than MIN_AMPS
Decision_enable_above_minimum ==
  IF ~state_matches
  THEN [step |-> "drift", intent |-> script_charger_on, cmds |-> <<>>]
  ELSE IF ~Truthy(charger_on) /\ (~should_enable \/ true_final_amps < MIN_AMPS)
  THEN [step |-> "off_insufficient", intent |-> "False", cmds |-> <<>>]
  ELSE IF ~Truthy(charger_on) /\ should_enable /\ true_final_amps > MIN_AMPS
  THEN [step |-> "enable", intent |-> "True", cmds |-> EnableCmds]
  ELSE IF Truthy(charger_on) /\ should_disable
  THEN [step |-> "disable", intent |-> "False", cmds |-> DisableCmds]
  ELSE IF Truthy(charger_on) /\ charging_rate = Some(set_final_amps)
  THEN [step |-> "no_change", intent |-> "True", cmds |-> <<>>]
  ELSE IF Truthy(charger_on)
  THEN [step |-> "rerate", intent |-> "True", cmds |-> RerateCmds]
  ELSE [step |-> "fallback", intent |-> "False", cmds |-> <<>>]

Decision ==
  IF ~state_matches
  THEN [step |-> "drift", intent |-> script_charger_on, cmds |-> <<>>]
  ELSE IF ~Truthy(charger_on) /\ (~should_enable \/ true_final_amps < MIN_AMPS)
  THEN [step |-> "off_insufficient", intent |-> "False", cmds |-> <<>>]
  ELSE IF ~Truthy(charger_on) /\ should_enable /\ true_final_amps >= MIN_AMPS
  THEN [step |-> "enable", intent |-> "True", cmds |-> EnableCmds]
  ELSE IF Truthy(charger_on) /\ should_disable
  THEN [step |-> "disable", intent |-> "False", cmds |-> DisableCmds]
  ELSE IF Truthy(charger_on) /\ charging_rate = Some(set_final_amps)
  THEN [step |-> "no_change", intent |-> "True", cmds |-> <<>>]
  ELSE IF Truthy(charger_on)
  THEN [step |-> "rerate", intent |-> "True", cmds |-> RerateCmds]
  ELSE [step |-> "fallback", intent |-> "False", cmds |-> <<>>]

----------------------------------------------------------------------------
(* Initial states *)

\* a name no assignment has bound yet
Unbound == << "unbound" >>
\* str and bytes objects: equal only to objects of their own type
Str(s) == << "str", s >>
Bytes(s) == << "bytes", s >>

NoSignal == [dns |-> "unset", file |-> "False", in_schedule |-> "False"]
Untracked ==
  [charger_on |-> "None", charging_rate |-> 0, charger_icon |-> "None",
   charger_icon_label |-> "None"]

StatIdle == [op |-> "none", count |-> 0, num |-> 0, den |-> 1, before |-> <<>>]
BackoffIdle ==
  [pc |-> "idle", delay |-> 0, retries |-> 0, current_retry |-> 0,
   current_delay |-> 0, calls |-> 0, result |-> "None", slept |-> <<>>,
   outcomes |-> <<>>]

\* PyEmChargeOnSolar.__init__ and the class attributes; the constructor of
\* PyEmCoS_Emporia has tried get_charger() once
InitController ==
  /\ excess_kw = None
  /\ charger_usage_kw = None
  /\ available_kw = <<>>
  /\ script_charger_on = "None"
  /\ charger_on = "None"
  /\ charging_rate = None
  /\ charger_icon = "None"
  /\ charger_icon_label = "None"
  /\ ev_charger \in { None } \cup { Some(r) : r \in Reports }
  /\ schedule_on = "None"
  /\ disabled_record = Unbound
  /\ signal = NoSignal
  /\ pc = "gate"
  /\ power_data = None
  /\ charger_draw = None
  /\ last_set_charger_on = "None"
  /\ drift_detected = "False"
  /\ cmds = <<>>
  /\ step = "none"

\* Spec leaves the charger's side open: a status fetch may find any report
Init ==
  /\ SMOOTH \in 0..MaxSmooth
  /\ WAIT_START \in 1..MaxWait
  /\ WAIT_STOP \in 1..MaxWait
  /\ OFFSET_AMPS \in OffsetChoices
  /\ DISABLE_DNS_TXT \in { "None", "set" }
  /\ InitController
  /\ device = Untracked
  /\ pushed = <<>>
  /\ stat = StatIdle
  /\ bo = BackoffIdle

----------------------------------------------------------------------------
(* main: one iteration of the loop, step by step *)

\* what the TXT lookup of line 243 can do: raise, or hand the record's string
DnsAnswers == { "fail", "True", "False", "0" }

\* lines 234-253: the clock and the disable signals are read; in_schedule is
\* what the test of line 265 will find for this clock.  dns.resolver hands
\* the TXT string as a bytes object; a lookup that raises leaves
\* disabled_record as it was, and line 248 then reads a name that may never
\* have been bound
CheckDisabled ==
  /\ pc = "gate"
  /\ \E answer \in IF DISABLE_DNS_TXT = "None" THEN { "unset" } ELSE DnsAnswers,
        file_exists \in BOOLEAN, in_schedule \in BOOLEAN :
       /\ signal' = [dns |-> answer, file |-> Flag(file_exists),
                     in_schedule |-> Flag(in_schedule)]
       /\ disabled_record' =
            IF answer \in { "unset", "fail" } THEN disabled_record
            ELSE Bytes(answer)
       /\ pc' = IF answer = "fail" /\ disabled_record = Unbound
                THEN "crashed" ELSE "if_enabled"
  /\ cmds' = <<>>
  /\ step' = "none"
  /\ UNCHANGED << config, power, available_kw, script_charger_on, observed,
                  ev_charger, schedule_on, world, aside >>

\* mutant: the local disable file is not looked at
enabled_without_file ==
  ~(/\ DISABLE_DNS_TXT # "None"
    /\ disabled_record # Str("False") /\ disabled_record # Str("0"))
\* main's enabled once lines 240-253 have run
enabled ==
  /\ ~(/\ DISABLE_DNS_TXT # "None"
       /\ disabled_record # Str("False") /\ disabled_record # Str("0"))
  /\ signal.file # "True"

\* line 255 with enabled False: the iteration does nothing more
LoopDisabled ==
  /\ pc = "if_enabled"
  /\ ~enabled
  /\ cmds' = <<>>
  /\ step' = "disabled"
  /\ pc' = "gate"
  /\ UNCHANGED << config, power, available_kw, script_charger_on, observed,
                  ev_charger, schedule_on, killswitch, world, aside >>

\* lines 265-266: enabled and inside the schedule
LoopInSchedule ==
  /\ pc = "if_enabled"
  /\ enabled
  /\ signal.in_schedule = "True"
  /\ schedule_on' = "True"
  /\ cmds' = <<>>
  /\ step' = "none"
  /\ pc' = "generation"
  /\ UNCHANGED << config, power, available_kw, script_charger_on, observed,
                  ev_charger, killswitch, world, aside >>

\* line 268, update_generation; the site is read at this moment
update_generation ==
  /\ pc = "generation"
  /\ \E rd \in Readings :
       /\ power_data' = rd.power
       /\ excess_kw' = Some(ExcessOf(rd.power))
       /\ charger_draw' = rd.usage
  /\ pc' = "status"
  /\ UNCHANGED << config, charger_usage_kw, available_kw, script_charger_on,
                  observed, ev_charger, schedule_on, cmds, step, killswitch,
                  world, aside >>

\* PyEmCoS_Emporia.get_charger_state after get_charger() left ev as the
\* local object: the dictionary, or None
get_charger_state(ev) == ev

\* line 270, update_emporia_status.  fetched is what get_charger() found:
\* None when its retries were exhausted or no EV charger is listed
StatusFrom(fetched) ==
  LET ev == IF fetched = None THEN ev_charger ELSE fetched
      charger_state == get_charger_state(ev)
  IN  /\ ev_charger' = ev
      /\ IF charger_state = None
         THEN /\ charger_on' = "None"
              /\ charging_rate' = None
              /\ charger_icon' = "None"
              /\ charger_icon_label' = "None"
         ELSE /\ charger_on' = charger_state[1].charger_on
              /\ charging_rate' = Some(charger_state[1].charging_rate)
              /\ charger_icon' = charger_state[1].charger_icon
              /\ charger_icon_label' = charger_state[1].charger_icon_label
      /\ pc' = "usage"
      /\ UNCHANGED << config, power, available_kw, script_charger_on,
                      schedule_on, cmds, step, killswitch, aside >>

update_emporia_status ==
  /\ pc = "status"
  /\ \E fetched \in { None } \cup { Some(r) : r \in Reports } :
       StatusFrom(fetched)
  /\ UNCHANGED world

\* lines 272-273, update_emporia_usage
update_emporia_usage ==
  /\ pc = "usage"
  /\ charger_icon = "CarConnected" /\ charger_icon_label = "On"
  /\ charger_usage_kw' = Some(UsageOf(charger_draw))
  /\ pc' = "available"
  /\ UNCHANGED << config, excess_kw, power_data, charger_draw, available_kw,
                  script_charger_on, observed, ev_charger, schedule_on, cmds,
                  step, killswitch, world, aside >>

\* lines 274-275
ZeroUsage ==
  /\ pc = "usage"
  /\ ~(charger_icon = "CarConnected" /\ charger_icon_label = "On")
  /\ charger_usage_kw' = Some(0)
  /\ pc' = "available"
  /\ UNCHANGED << config, excess_kw, power_data, charger_draw, available_kw,
                  script_charger_on, observed, ev_charger, schedule_on, cmds,
                  step, killswitch, world, aside >>

\* line 277, update_power_available: append, then prune
update_power_available ==
  /\ pc = "available"
  /\ available_kw' =
       PushSample(available_kw, available_for_charger_kw(excess_kw, charger_usage_kw))
  /\ pc' = "decide"
  /\ UNCHANGED << config, power, script_charger_on, observed, ev_charger,
                  schedule_on, cmds, step, killswitch, world, aside >>

\* lines 279-280: the car is connected, the decision engine runs
EngineRun ==
  /\ script_charger_on' = Decision.intent
  /\ cmds' = cmds \o Decision.cmds
  /\ ev_charger' = ApplyCmds(ev_charger, Decision.cmds)
  /\ step' = Decision.step
  /\ pc' = "gate"
  /\ UNCHANGED << config, power, available_kw, observed, schedule_on,
                  killswitch, aside >>

\* mutant: the engine runs whether or not a car is connected
update_charge_amp_by_power_data_ungated ==
  /\ pc = "decide"
  /\ EngineRun
  /\ UNCHANGED world

update_charge_amp_by_power_data ==
  /\ pc = "decide"
  /\ charger_icon = "CarConnected"
  /\ EngineRun
  /\ UNCHANGED world

\* lines 281-282: no car, no charger update
SkipChargerUpdate ==
  /\ pc = "decide"
  /\ charger_icon # "CarConnected"
  /\ step' = "skip"
  /\ pc' = "gate"
  /\ UNCHANGED << config, power, available_kw, script_charger_on, observed,
                  ev_charger, schedule_on, cmds, killswitch, world, aside >>

\* mutant: the shut-off is written locally and never sent
ShutOffCmds_without_commit == << SetOn(FALSE), SetRate(MIN_AMPS) >>
\* lines 286-288
ShutOffCmds == << SetOn(FALSE), SetRate(MIN_AMPS), Commit >>

\* lines 283-290, the branch `elif schedule_on`
ScheduleEnd ==
  /\ pc' = "gate"
  /\ IF Truthy(schedule_on)
     THEN /\ cmds' = IF Truthy(charger_on) THEN ShutOffCmds ELSE <<>>
          /\ ev_charger' = ApplyCmds(ev_charger, cmds')
          /\ step' = "schedule_end"
          /\ schedule_on' = "False"
     ELSE /\ cmds' = <<>>
          /\ step' = "none"
          /\ UNCHANGED << ev_charger, schedule_on >>
  /\ UNCHANGED << config, power, available_kw, script_charger_on, observed,
                  killswitch, aside >>

\* lines 283-290: enabled and outside the schedule
LoopOutOfSchedule ==
  /\ pc = "if_enabled"
  /\ enabled
  /\ signal.in_schedule = "False"
  /\ ScheduleEnd
  /\ UNCHANGED world

Next ==
  \/ CheckDisabled
  \/ LoopDisabled
  \/ LoopInSchedule
  \/ update_generation
  \/ update_emporia_status
  \/ update_emporia_usage
  \/ ZeroUsage
  \/ update_power_available
  \/ update_charge_amp_by_power_data
  \/ SkipChargerUpdate
  \/ LoopOutOfSchedule

Spec == Init /\ [][Next]_vars

----------------------------------------------------------------------------
(* The loop together with the charger it drives: status fetches read the    *)
(* device, commits reach it unless update_charger runs out of retries       *)

HasCommit(cs) == \E i \in 1..Len(cs) : cs[i] = Commit

\* vue.update_charger(self.ev_charger): the service takes the on/off flag and
\* the rate of the local object
Delivered(dev, ev) ==
  [dev EXCEPT !.charger_on = ev[1].charger_on,
              !.charging_rate = ev[1].charging_rate]

RECURSIVE LastSetOn(_, _)
LastSetOn(cs, before) ==
  IF cs = <<>> THEN before
  ELSE LastSetOn(Tail(cs),
                 IF Head(cs).op = "set_charger_on" THEN Head(cs).on ELSE before)

\* the calls cs reach the device: update_charger succeeds within its retries
\* or gives up and returns None
Track(cs) ==
  /\ \E delivered \in BOOLEAN :
       device' = IF HasCommit(cs) /\ delivered
                 THEN Delivered(device, ApplyCmds(ev_charger, cs))
                 ELSE device
  /\ last_set_charger_on' = LastSetOn(cs, last_set_charger_on)

InitWorld ==
  /\ SMOOTH = 1
  /\ WAIT_START \in 1..MaxWait
  /\ WAIT_STOP = 1
  /\ OFFSET_AMPS = 0
  /\ DISABLE_DNS_TXT = "None"
  /\ InitController
  /\ device \in Reports
  /\ ev_charger \in { None, Some(device) }
  /\ pushed = <<>>
  /\ stat = StatIdle
  /\ bo = BackoffIdle

\* somebody else switches the charger, sets its rate, plugs or unplugs the car
ExternalActor ==
  /\ pc = "gate"
  /\ device' \in Reports \ { device }
  /\ UNCHANGED << config, power, available_kw, script_charger_on, observed,
                  ev_charger, schedule_on, pc, cmds, step, killswitch,
                  last_set_charger_on, drift_detected, aside >>

\* line 270 with get_charger() succeeding: the device as it is
update_emporia_status_fetched ==
  /\ pc = "status"
  /\ StatusFrom(Some(device))
  /\ UNCHANGED world

\* line 270 with get_charger() out of retries
update_emporia_status_unfetched ==
  /\ pc = "status"
  /\ StatusFrom(None)
  /\ UNCHANGED world

\* lines 279-280 and what becomes of the engine's calls
update_charge_amp_by_power_data_tracked ==
  /\ pc = "decide"
  /\ charger_icon = "CarConnected"
  /\ EngineRun
  /\ Track(Decision.cmds)
  /\ drift_detected' =
       IF Decision.step = "drift" THEN "True"
       ELSE IF drift_detected = "True" THEN "Resumed" ELSE "False"

\* lines 283-290 and what becomes of the shut-off
LoopOutOfSchedule_tracked ==
  /\ pc = "if_enabled"
  /\ enabled
  /\ signal.in_schedule = "False"
  /\ ScheduleEnd
  /\ Track(IF Truthy(schedule_on) /\ Truthy(charger_on)
           THEN ShutOffCmds ELSE <<>>)
  /\ UNCHANGED drift_detected

NextWorld ==
  \/ CheckDisabled
  \/ LoopDisabled
  \/ LoopInSchedule
  \/ update_generation
  \/ update_emporia_status_fetched
  \/ update_emporia_status_unfetched
  \/ update_emporia_usage
  \/ ZeroUsage
  \/ update_power_available
  \/ update_charge_amp_by_power_data_tracked
  \/ SkipChargerUpdate
  \/ LoopOutOfSchedule_tracked
  \/ ExternalActor

SpecWorld == InitWorld /\ [][NextWorld]_vars

\* nobody but the script touches the charger and every status fetch succeeds
NextClosed ==
  \/ CheckDisabled
  \/ LoopDisabled
  \/ LoopInSchedule
  \/ update_generation
  \/ update_emporia_status_fetched
  \/ update_emporia_usage
  \/ ZeroUsage
  \/ update_power_available
  \/ update_charge_amp_by_power_data_tracked
  \/ SkipChargerUpdate
  \/ LoopOutOfSchedule_tracked

SpecClosed == InitWorld /\ [][NextClosed]_vars

----------------------------------------------------------------------------
(* The sample history on its own: pushes and sliding statistics, for        *)
(* history caps from 0, window sizes of any sign, and the smoothing window  *)
(* at its smallest and at its widest                                        *)

InitHist ==
  /\ SMOOTH \in { 1, MaxSmooth }
  /\ WAIT_START \in 0..MaxWait
  /\ WAIT_STOP \in 0..MaxWait
  /\ OFFSET_AMPS = 0
  /\ DISABLE_DNS_TXT = "None"
  /\ InitController
  /\ ev_charger = None
  /\ device = Untracked
  /\ pushed = <<>>
  /\ stat = StatIdle
  /\ bo = BackoffIdle

\* update_power_available after a poll that read rd; metered tells whether
\* the charger's consumption was asked for
HistPush ==
  /\ Len(pushed) < MaxHist
  /\ \E rd \in Readings, metered \in BOOLEAN :
       LET excess == Some(ExcessOf(rd.power))
           usage == Some(IF metered THEN UsageOf(rd.usage) ELSE 0)
           sample == available_for_charger_kw(excess, usage)
       IN  /\ power_data' = rd.power
           /\ excess_kw' = excess
           /\ charger_usage_kw' = usage
           /\ available_kw' = PushSample(available_kw, sample)
           /\ pushed' = Append(pushed, sample)
  /\ stat' = StatIdle
  /\ UNCHANGED << config, script_charger_on, observed, ev_charger, schedule_on,
                  pc, charger_draw, cmds, step, bo,
                  killswitch, world >>

CallSlidingAverage ==
  /\ \E count \in -1..MaxCount :
       LET a == available_kw_sliding_average(available_kw, count)
       IN  stat' = [op |-> "average", count |-> count, num |-> a.num,
                    den |-> a.den, before |-> available_kw]
  /\ UNCHANGED << config, power, available_kw, script_charger_on, observed,
                  ev_charger, schedule_on, pc, cmds, step, pushed, bo,
                  killswitch, world >>

CallSlidingMinimum ==
  /\ \E count \in -1..MaxCount :
       stat' = [op |-> "minimum", count |-> count,
                num |-> available_kw_sliding_minimum(available_kw, count),
                den |-> 1, before |-> available_kw]
  /\ UNCHANGED << config, power, available_kw, script_charger_on, observed,
                  ev_charger, schedule_on, pc, cmds, step, pushed, bo,
                  killswitch, world >>

CallSlidingMaximum ==
  /\ \E count \in -1..MaxCount :
       stat' = [op |-> "maximum", count |-> count,
                num |-> available_kw_sliding_maximum(available_kw, count),
                den |-> 1, before |-> available_kw]
  /\ UNCHANGED << config, power, available_kw, script_charger_on, observed,
                  ev_charger, schedule_on, pc, cmds, step, pushed, bo,
                  killswitch, world >>

NextHist ==
  \/ HistPush
  \/ CallSlidingAverage
  \/ CallSlidingMinimum
  \/ CallSlidingMaximum

SpecHist == InitHist /\ [][NextHist]_vars

----------------------------------------------------------------------------
(* pyemcos_shared.backoff: one call of a wrapped function *)

Values == { "v1", "v2" }

\* mutant: giving up one failure late
RetriesExhausted_late(current_retry, retries) == current_retry > retries
\* mutant: one attempt too many
LoopContinues_inclusive(current_retry, retries) == current_retry <= retries
\* line 69, the loop test
LoopContinues(current_retry, retries) == current_retry < retries

\* line 74, giving up
RetriesExhausted(current_retry, retries) == current_retry >= retries

\* lines 67-68: the wrapper has been entered
InitBackoff ==
  /\ SMOOTH = 1
  /\ WAIT_START = 1
  /\ WAIT_STOP = 1
  /\ OFFSET_AMPS = 0
  /\ DISABLE_DNS_TXT = "None"
  /\ InitController
  /\ ev_charger = None
  /\ device = Untracked
  /\ pushed = <<>>
  /\ stat = StatIdle
  /\ \E delay \in (1..MaxDelay) \cup { DEFAULT_DELAY },
        retries \in (0..MaxRetries) \cup { DEFAULT_RETRIES } :
       bo = [pc |-> "while", delay |-> delay, retries |-> retries,
             current_retry |-> 0, current_delay |-> delay, calls |-> 0,
             result |-> "None", slept |-> <<>>, outcomes |-> <<>>]

notbo == << config, power, available_kw, script_charger_on, observed,
            ev_charger, schedule_on, pc, cmds, step, pushed, stat,
            killswitch, world >>

\* line 69
BackoffLoop ==
  /\ bo.pc = "while"
  /\ bo' = IF LoopContinues(bo.current_retry, bo.retries)
           THEN [bo EXCEPT !.pc = "try"]
           ELSE [bo EXCEPT !.pc = "done", !.result = "None"]
  /\ UNCHANGED notbo

\* lines 70-71: the wrapped function returns v
BackoffReturn ==
  /\ bo.pc = "try"
  /\ \E v \in Values :
       bo' = [bo EXCEPT !.pc = "done", !.calls = @ + 1, !.result = v,
                        !.outcomes = Append(@, v)]
  /\ UNCHANGED notbo

\* lines 72-78: the wrapped function raises
BackoffExcept ==
  /\ bo.pc = "try"
  /\ LET current_retry == bo.current_retry + 1
     IN  bo' = IF RetriesExhausted(current_retry, bo.retries)
               THEN [bo EXCEPT !.pc = "done", !.calls = @ + 1,
                               !.current_retry = current_retry,
                               !.result = "None",
                               !.outcomes = Append(@, "raise")]
               ELSE [bo EXCEPT !.pc = "while", !.calls = @ + 1,
                               !.current_retry = current_retry,
                               !.slept = Append(@, bo.current_delay),
                               !.current_delay = @ * 2,
                               !.outcomes = Append(@, "raise")]
  /\ UNCHANGED notbo

NextBackoff ==
  \/ BackoffLoop
  \/ BackoffReturn
  \/ BackoffExcept

\* a call that was started runs on: each attempt returns or raises
SpecBackoff == InitBackoff /\ [][NextBackoff]_vars /\ WF_vars(NextBackoff)

----------------------------------------------------------------------------
(* Properties *)

\* the last n samples of a history, oldest first
LastN(kw, n) == [i \in 1..n |-> kw[Len(kw) - n + i]]

\* the amps one sample maps to
SampleAmps(ckw) == AmpsFromKw(ckw) + OFFSET_AMPS

\* a decision cycle: update_charge_amp_by_power_data is about to run
InDecision == pc = "decide" /\ charger_icon = "CarConnected"

\* the intent is set and differs from the observed on/off flag
Drift == script_charger_on # "None" /\ script_charger_on # charger_on

Issued(c) == \E i \in 1..Len(cmds) : cmds[i] = c

\* C1. Drift safety: a decision cycle entered with the intent set and
\* different from the observed on/off flag issues no command, leaves the
\* intent as it is and does not touch the local charger object.
C1_DriftSafety ==
  [][ (InDecision /\ Drift) =>
        /\ cmds' = <<>>
        /\ script_charger_on' = script_charger_on
        /\ ev_charger' = ev_charger ]_vars

\* a drift cycle has run while the power signals asked for enabling
C1_Witness ==
  /\ step = "drift"
  /\ script_charger_on = "True" /\ charger_on = "False"
  /\ should_enable /\ true_final_amps >= MIN_AMPS
  /\ cmds = <<>>

\* C2. Enable hysteresis: set_charger_on(True) is issued only when at
\* least WAIT_START samples exist and each of the last WAIT_START samples
\* maps to at least MIN_AMPS amps.
C2_EnableOnlyAfterFullWindow ==
  Issued(SetOn(TRUE)) =>
    /\ Len(available_kw) >= WAIT_START
    /\ \A i \in 1..WAIT_START :
         SampleAmps(LastN(available_kw, WAIT_START)[i]) >= MIN_AMPS

\* C3. Disable debounce: the decision engine issues set_charger_on(False)
\* only when at least WAIT_STOP samples exist and each of the last
\* WAIT_STOP samples maps to fewer than MIN_AMPS amps.
C3_DisableOnlyAfterFullWindow ==
  (step = "disable" /\ Issued(SetOn(FALSE))) =>
    /\ Len(available_kw) >= WAIT_STOP
    /\ \A i \in 1..WAIT_STOP :
         SampleAmps(LastN(available_kw, WAIT_STOP)[i]) < MIN_AMPS

\* C4. Clamping: every rate handed to set_charging_rate lies in
\* MIN_AMPS..MAX_AMPS.
C4_Clamping ==
  \A i \in 1..Len(cmds) :
    cmds[i].op = "set_charging_rate" => cmds[i].rate[1] \in MIN_AMPS..MAX_AMPS

\* a rate was commanded while the average maps to more than MAX_AMPS
C4_Witness ==
  /\ step \in { "enable", "rerate" }
  /\ amps > MAX_AMPS
  /\ Issued(SetRate(MAX_AMPS))

\* C5. Off-branch decision: with no drift and the charger observed off, the
\* engine enables (on, rate set_final_amps, commit; intent on) exactly when
\* should_enable holds and the average amps, capped at MAX_AMPS and not
\* floored, reach MIN_AMPS; otherwise no command, intent off.
C5_OffBranch ==
  [][ (InDecision /\ ~Drift /\ charger_on # "True") =>
        IF should_enable /\ Max2(Min2(amps, MAX_AMPS), 0) >= MIN_AMPS
        THEN /\ cmds' = << SetOn(TRUE), SetRate(set_final_amps), Commit >>
             /\ script_charger_on' = "True"
        ELSE /\ cmds' = <<>>
             /\ script_charger_on' = "False" ]_vars

\* the engine refused to enable although the minimum window qualifies and
\* the rate it would command is MIN_AMPS
C5_Witness ==
  /\ step = "off_insufficient"
  /\ should_enable
  /\ amps < MIN_AMPS
  /\ set_final_amps = MIN_AMPS
  /\ script_charger_on = "False"
  /\ cmds = <<>>

C7_NoRedundantWrites ==
  [][ (InDecision /\ ~Drift /\ charger_on = "True" /\ ~should_disable) =>
        /\ script_charger_on' = "True"
        /\ IF charging_rate = Some(set_final_amps)
           THEN cmds' = <<>>
           ELSE cmds' = << SetRate(set_final_amps), Commit >> ]_vars

\* an already-on charger at the matching rate: the cycle issued nothing
C7_Witness ==
  /\ step = "no_change"
  /\ charger_on = "True"
  /\ charging_rate = Some(set_final_amps)
  /\ cmds = <<>>

\* C8. SampleHistory bound: after any push the history is no longer than
\* max(WAIT_START, WAIT_STOP) and holds the most recent samples in order.
C8_HistoryBounded ==
  pushed # <<>> =>
    /\ Len(available_kw) <= Max2(WAIT_START, WAIT_STOP)
    /\ Len(available_kw) <= Len(pushed)
    /\ available_kw = LastN(pushed, Len(available_kw))

\* C9. Sliding statistics: each of the three returns 0 when the count is
\* not positive or exceeds the history, otherwise the exact average,
\* minimum, maximum of the last count samples; the history is as before.
C9_SlidingStatistics ==
  LET n == stat.count
      short == n <= 0 \/ Len(available_kw) < n
      w == LastN(available_kw, n)
  IN  stat.op # "none" =>
        /\ stat.before = available_kw
        /\ stat.op = "average" =>
             IF short THEN stat.num = 0
             ELSE stat.num * n = stat.den * SumSeq(w)
        /\ stat.op = "minimum" =>
             IF short THEN stat.num = 0
             ELSE /\ \E i \in 1..n : w[i] = stat.num
                  /\ \A i \in 1..n : stat.num <= w[i]
        /\ stat.op = "maximum" =>
             IF short THEN stat.num = 0
             ELSE /\ \E i \in 1..n : w[i] = stat.num
                  /\ \A i \in 1..n : stat.num >= w[i]

\* the minimum of the last two samples, with a smaller sample before them
C9_Witness ==
  /\ stat.op = "minimum"
  /\ stat.count = 2
  /\ Len(available_kw) = 3
  /\ available_kw[1] < stat.num

\* C10. Bounded retry: the wrapped function is invoked at most retries
\* times, only the last attempt can have returned, the result is that
\* attempt's value or None when every attempt raised, and the call ends.
C10_BoundedRetry ==
  /\ [](LET o == bo.outcomes
        IN  /\ bo.calls = Len(o)
            /\ Len(o) <= bo.retries
            /\ \A i \in 1..(Len(o) - 1) : o[i] = "raise"
            /\ bo.pc = "done" =>
                 bo.result = IF o # <<>> /\ o[Len(o)] # "raise"
                             THEN o[Len(o)] ELSE "None")
  /\ <>(bo.pc = "done")

\* every attempt of a call with the default retries raised: None
C10_Witness ==
  /\ bo.pc = "done"
  /\ bo.retries = DEFAULT_RETRIES
  /\ bo.outcomes = << "raise", "raise", "raise" >>
  /\ bo.result = "None"

\* C11. Absent power data: in a cycle whose power reading was absent the
\* sample pushed is the one a reading of solar = load = battery = 0 W would
\* give, that is the charger's own consumption, and the cycle runs to its end.
C11_AbsentPowerData ==
  [][ /\ (pc = "available" /\ power_data = None) =>
           /\ available_kw' =
                PushSample(available_kw,
                  available_for_charger_kw(
                    Some(ExcessOf(Some(PowerStats(0, 0, 0)))), charger_usage_kw))
           /\ available_kw' =
                PushSample(available_kw, UsageOf(charger_usage_kw))
           /\ pc' = "decide"
      /\ (pc = "decide" /\ power_data = None) => pc' = "gate" ]_vars

\* an absent power reading while the charger draws 1.5 kW: 1.5 kW was pushed
C11_Witness ==
  /\ pc = "decide"
  /\ power_data = None
  /\ charger_usage_kw = Some(150)
  /\ available_kw # <<>>
  /\ available_kw[Len(available_kw)] = 150

\* the remote record or the local file asks for disabling
SignalsDisable ==
  \/ signal.file = "True"
  \/ signal.dns \notin { "unset", "fail", "False", "0" }

\* C12. Kill switch wins: an iteration that read a disable signal polls no
\* provider, pushes no sample, leaves the intent alone and issues no
\* command, whatever the schedule.
C12_KillSwitchWins ==
  [][ (pc = "if_enabled" /\ SignalsDisable) =>
        /\ pc' = "gate"
        /\ cmds' = <<>>
        /\ UNCHANGED << power, observed, available_kw, script_charger_on,
                        ev_charger, schedule_on >> ]_vars

\* a disabled iteration inside a running schedule with the charger on
C12_Witness ==
  /\ step = "disabled"
  /\ signal.file = "True"
  /\ schedule_on = "True"
  /\ charger_on = "True"
  /\ script_charger_on = "True"
  /\ cmds = <<>>

\* C13. Intent tracks commands: once the script has called set_charger_on,
\* from the engine or from the end-of-schedule shut-off, the intent equals
\* the value of its latest call.
C13_IntentTracksCommands ==
  last_set_charger_on # "None" => script_charger_on = last_set_charger_on

ObservedCleared ==
  /\ charger_on = "None"
  /\ charging_rate = None
  /\ charger_icon = "None"
  /\ charger_icon_label = "None"

ObservedIs(r) ==
  /\ charger_on = r.charger_on
  /\ charging_rate = Some(r.charging_rate)
  /\ charger_icon = r.charger_icon
  /\ charger_icon_label = r.charger_icon_label

\* floor(kw * 1000 / 240) + OFFSET_AMPS for kw given in ckw
FloorAmps(ckw) == ((ckw * 10) \div VOLTS) + OFFSET_AMPS

\* the quotient kw * 1000 / 240 is a negative number that is not whole
NegativeFraction(ckw) == ckw < 0 /\ (ckw * 10) % VOLTS # 0

\* C14 as stated. Amperage derivation: the amps of the average, minimum and
\* maximum signals are floor(kw * 1000 / 240) + OFFSET_AMPS for negative kw
\* as for positive, and should_enable, should_disable and true_final_amps
\* are what that formula gives.
C14_FloorAmperage ==
  InDecision =>
    /\ amps = FloorAmps(average_kw)
    /\ min_amps = FloorAmps(min_kw)
    /\ max_amps = FloorAmps(max_kw)
    /\ should_enable = (FloorAmps(min_kw) >= MIN_AMPS)
    /\ should_disable = (FloorAmps(max_kw) < MIN_AMPS)
    /\ true_final_amps = Max2(Min2(FloorAmps(average_kw), MAX_AMPS), 0)

\* C14 as amended. The quotient is truncated toward zero: the amps of each
\* signal are floor(kw * 1000 / 240) + OFFSET_AMPS when kw >= 0 or the
\* quotient is whole, and one more than that otherwise; should_enable,
\* should_disable and true_final_amps are taken from these amps.
C14_TruncatedAmperage ==
  InDecision =>
    /\ amps = FloorAmps(average_kw)
              + (IF NegativeFraction(average_kw) THEN 1 ELSE 0)
    /\ min_amps = FloorAmps(min_kw) + (IF NegativeFraction(min_kw) THEN 1 ELSE 0)
    /\ max_amps = FloorAmps(max_kw) + (IF NegativeFraction(max_kw) THEN 1 ELSE 0)
    /\ should_enable = (min_amps >= MIN_AMPS)
    /\ should_disable = (max_amps < MIN_AMPS)
    /\ true_final_amps = Max2(Min2(amps, MAX_AMPS), 0)

\* the engine ran on an average of -0.30 kW with an offset of 6 A: 5 A, where
\* the floor gives 4 A
C14_Witness ==
  /\ step = "off_insufficient"
  /\ OFFSET_AMPS = MIN_AMPS
  /\ average_kw = -30
  /\ true_final_amps = 5
  /\ FloorAmps(average_kw) = 4

\* C15. Observed state is ground truth or absent: the charger state a cycle
\* works with is what the service holds in that cycle, or all of its fields
\* are cleared.
C15_ObservedIsGroundTruth ==
  pc \in { "usage", "available", "decide" } =>
    ObservedCleared \/ ObservedIs(device)

NormalSteps == { "off_insufficient", "enable", "disable", "no_change", "rerate" }

C17_DriftOnlyExternal == step # "drift"

\* C18. End-of-schedule shut-off: the first enabled iteration outside the
\* schedule after one inside it commands off, rate MIN_AMPS and one commit
\* if the charger was last observed on; every enabled iteration outside the
\* schedule polls nothing and pushes nothing, and the later ones issue no
\* command.
C18_EndOfSchedule ==
  [][ (pc = "if_enabled" /\ enabled /\ signal.in_schedule = "False") =>
        /\ pc' = "gate"
        /\ UNCHANGED << power, observed, available_kw, script_charger_on >>
        /\ IF schedule_on = "True"
           THEN /\ cmds' = IF charger_on = "True"
                           THEN << SetOn(FALSE), SetRate(MIN_AMPS), Commit >>
                           ELSE <<>>
                /\ schedule_on' = "False"
           ELSE /\ cmds' = <<>>
                /\ schedule_on' = schedule_on ]_vars

\* the schedule has just ended on a charger that was charging at MAX_AMPS
C18_Witness ==
  /\ step = "schedule_end"
  /\ charger_on = "True"
  /\ charging_rate = Some(MAX_AMPS)
  /\ schedule_on = "False"
  /\ cmds = << SetOn(FALSE), SetRate(MIN_AMPS), Commit >>

\* the last n samples exist and each maps to at least MIN_AMPS amps
Qualifying(n) ==
  /\ Len(available_kw) >= n
  /\ \A i \in 1..n : SampleAmps(LastN(available_kw, n)[i]) >= MIN_AMPS

\* C19 as stated. Bounded response: with SMOOTH <= max(WAIT_START,
\* WAIT_STOP), a decision cycle with the charger observed off, no drift and
\* the last max(WAIT_START, SMOOTH) samples all mapping to at least MIN_AMPS
\* issues the enable.
C19_BoundedResponse ==
  [][ ( /\ InDecision /\ ~Drift /\ charger_on = "False"
        /\ SMOOTH <= Max2(WAIT_START, WAIT_STOP)
        /\ Qualifying(Max2(WAIT_START, SMOOTH)) ) =>
        cmds' = << SetOn(TRUE), SetRate(set_final_amps), Commit >> ]_vars

\* C19 as amended. Bounded response for windows of at least one sample:
\* the same with 1 <= SMOOTH <= max(WAIT_START, WAIT_STOP) and
\* WAIT_START >= 1.
C19_BoundedResponseFromOne ==
  [][ ( /\ InDecision /\ ~Drift /\ charger_on = "False"
        /\ 1 <= SMOOTH /\ SMOOTH <= Max2(WAIT_START, WAIT_STOP)
        /\ 1 <= WAIT_START
        /\ Qualifying(Max2(WAIT_START, SMOOTH)) ) =>
        /\ cmds' = << SetOn(TRUE), SetRate(set_final_amps), Commit >>
        /\ script_charger_on' = "True" ]_vars

\* two cycles of 1.5 kW with WAIT_START = 2: enabled at 6 A in the second
C19_Witness ==
  /\ step = "enable"
  /\ WAIT_START = 2 /\ SMOOTH >= 1 /\ OFFSET_AMPS = 0
  /\ available_kw = << 150, 150 >>
  /\ charger_on = "False"
  /\ cmds = << SetOn(TRUE), SetRate(MIN_AMPS), Commit >>

RECURSIVE Pow2(_)
Pow2(n) == IF n <= 0 THEN 1 ELSE 2 * Pow2(n - 1)

\* C20. Exponential backoff schedule: the i-th sleep lasts delay * 2^(i-1);
\* while the call runs every failure so far has been followed by a sleep,
\* and once it has ended there is one sleep fewer than attempts: none after
\* the last attempt, failed or not.
C20_BackoffSchedule ==
  /\ \A i \in 1..Len(bo.slept) : bo.slept[i] = bo.delay * Pow2(i - 1)
  /\ bo.pc \in { "while", "try" } => Len(bo.slept) = bo.calls
  /\ bo.pc = "done" =>
       Len(bo.slept) = IF bo.calls = 0 THEN 0 ELSE bo.calls - 1

\* three failures with the defaults: slept 5 s and 10 s, then gave up
C20_Witness ==
  /\ bo.pc = "done"
  /\ bo.delay = DEFAULT_DELAY /\ bo.retries = DEFAULT_RETRIES
  /\ bo.calls = 3
  /\ bo.slept = << 5, 10 >>
  /\ bo.result = "None"

\* C21. Vehicle gating: in a cycle whose charger icon is not CarConnected
\* (a cleared state included) the sample is pushed all the same, the engine
\* does not run, nothing is commanded and the intent stays; the charger's
\* consumption enters the sample only with the icon CarConnected and the
\* label On.
C21_VehicleGating ==
  [][ /\ pc = "usage" =>
           charger_usage_kw' =
             IF charger_icon = "CarConnected" /\ charger_icon_label = "On"
             THEN Some(UsageOf(charger_draw)) ELSE Some(0)
      /\ (pc = "available" /\ charger_icon # "CarConnected") =>
           /\ charger_usage_kw = Some(0)
           /\ available_kw' =
                PushSample(available_kw, RoundDiv(excess_kw[1], 10))
           /\ pc' = "decide"
      /\ (pc = "decide" /\ charger_icon # "CarConnected") =>
           /\ cmds' = <<>>
           /\ pc' = "gate"
           /\ UNCHANGED << script_charger_on, ev_charger, available_kw >> ]_vars

\* no car: 12 kW of surplus was pushed, the charger observed off was left
\* alone and the intent is still on
C21_Witness ==
  /\ step = "skip"
  /\ charger_icon = "CarNotConnected"
  /\ charger_on = "False"
  /\ script_charger_on = "True"
  /\ available_kw # <<>>
  /\ available_kw[Len(available_kw)] = 1200
  /\ cmds = <<>>

\* C22. Exclusive signals: in every decision cycle with WAIT_START >= 1,
\* WAIT_STOP >= 1 and OFFSET_AMPS < MIN_AMPS, whatever the length of the
\* history, should_enable and should_disable are not both true.
C22_ExclusiveSignals ==
  (InDecision /\ WAIT_START >= 1 /\ WAIT_STOP >= 1 /\ OFFSET_AMPS < MIN_AMPS)
    => ~(should_enable /\ should_disable)

\* C23. Smoothing window availability: with SMOOTH, WAIT_START and
\* WAIT_STOP >= 1, once SMOOTH samples have been pushed average_kw is the
\* mean of the last SMOOTH pushed samples, also when SMOOTH exceeds
\* max(WAIT_START, WAIT_STOP).
C23_SmoothingWindowAvailable ==
  (SMOOTH >= 1 /\ WAIT_START >= 1 /\ WAIT_STOP >= 1 /\ Len(pushed) >= SMOOTH)
    => average_kw = RoundDiv(SumSeq(LastN(pushed, SMOOTH)), SMOOTH)

\* C24. Exhaustive steps: a decision cycle without drift takes exactly one
\* of off-insufficient, enable, disable, no-change and re-rate, the one its
\* observed on/off flag, signals and amperages select; the fallback step is
\* never taken.
C24_ExhaustiveSteps ==
  [][ (InDecision /\ ~Drift) =>
        LET on == charger_on = "True"
            enough == should_enable /\ true_final_amps >= MIN_AMPS
            same == charging_rate = Some(set_final_amps)
        IN  /\ step' \in NormalSteps
            /\ step' # "fallback"
            /\ step' = "off_insufficient" <=> (~on /\ ~enough)
            /\ step' = "enable" <=> (~on /\ enough)
            /\ step' = "disable" <=> (on /\ should_disable)
            /\ step' = "no_change" <=> (on /\ ~should_disable /\ same)
            /\ step' = "rerate" <=> (on /\ ~should_disable /\ ~same) ]_vars

\* the enable step taken at the boundary, true_final_amps = MIN_AMPS, with
\* both signals true
C24_Witness ==
  /\ step = "enable"
  /\ charger_on = "False"
  /\ true_final_amps = MIN_AMPS
  /\ should_enable
  /\ should_disable
  /\ Len(cmds) = 3

====
